---- MODULE Spec2Model ----
(***************************************************************************)
(* Model of the ai-text-formatter Django application (formatter/views.py, *)
(* formatter/utils.py, formatter/models.py).                               *)
(*                                                                         *)
(* Representation.  A Python str is a sequence of one-character strings.   *)
(* An HTML value is the sequence of top-level nodes that                   *)
(* BeautifulSoup(html, "html.parser") yields for it: a text node is        *)
(* [name |-> NoName, text |-> chars, contents |-> <<>>], a tag is          *)
(* [name |-> "p", text |-> <<>>, contents |-> children].  The empty HTML   *)
(* string is <<>>.  The history table is a set of rows.                    *)
(***************************************************************************)
EXTENDS Integers, Sequences, FiniteSets, TLC

VARIABLES
    store,      \* rows of TextHistory
    nextId,     \* next primary key the database assigns
    now,        \* the database clock (auto_now_add)
    req,        \* the request being answered
    resp,       \* the response returned for req
    submitted,  \* history: id -> the raw_text field as posted and the HTML displayed
    rendered    \* history: HTML outputs of successful format actions

vars == <<store, nextId, now, req, resp, submitted, rendered>>

\* ------------------------------------------------------------------ bounds

\* Rows ever created in one run of the request state machine.
MaxCreates == 2

\* ------------------------------------------------------------- Python str

Min(a, b) == IF a < b THEN a ELSE b

Whitespace == {" ", "\n", "\t"}

IsSpace(c) == c \in Whitespace

RECURSIVE lstrip(_)
lstrip(s) == IF s # <<>> /\ IsSpace(Head(s)) THEN lstrip(Tail(s)) ELSE s

RECURSIVE rstrip(_)
rstrip(s) ==
    IF s # <<>> /\ IsSpace(s[Len(s)]) THEN rstrip(SubSeq(s, 1, Len(s) - 1)) ELSE s

\* str.strip()
strip(s) == rstrip(lstrip(s))

\* s[:n]
Prefix(s, n) == SubSeq(s, 1, Min(n, Len(s)))

\* s[n:]  (n >= 0)
Drop(s, n) == SubSeq(s, n + 1, Len(s))

LowerOf(c) ==
    CASE c = "A" -> "a"
      [] c = "B" -> "b"
      [] c = "C" -> "c"
      [] c = "D" -> "d"
      [] c = "F" -> "f"
      [] c = "O" -> "o"
      [] c = "P" -> "p"
      [] c = "X" -> "x"
      [] OTHER -> c

\* str.lower()
lower(s) == [i \in 1..Len(s) |-> LowerOf(s[i])]

\* str.endswith(suffix)
endswith(s, suffix) ==
    /\ Len(suffix) <= Len(s)
    /\ SubSeq(s, Len(s) - Len(suffix) + 1, Len(s)) = suffix

\* needle in haystack
Contains(haystack, needle) ==
    \E i \in 0..(Len(haystack) - Len(needle)) :
        SubSeq(haystack, i + 1, i + Len(needle)) = needle

\* ------------------------------------------------------------ HTML nodes

NoName == "None"

Text(chars) == [name |-> NoName, text |-> chars, contents |-> <<>>]

Tag(n, children) == [name |-> n, text |-> <<>>, contents |-> children]

IsText(node) == node.name = NoName

RECURSIVE get_text(_)
RECURSIVE get_text_all(_)
\* Tag.get_text() / NavigableString.get_text(): all descendant strings joined
get_text(node) ==
    IF IsText(node) THEN node.text ELSE get_text_all(node.contents)

get_text_all(nodes) ==
    IF nodes = <<>> THEN <<>>
    ELSE get_text(Head(nodes)) \o get_text_all(Tail(nodes))

RECURSIVE html_text(_)
\* The HTML string of a node sequence, one element per text character and
\* one per tag delimiter.
html_text(nodes) ==
    IF nodes = <<>> THEN <<>>
    ELSE LET n == Head(nodes)
         IN (IF IsText(n) THEN n.text
             ELSE <<"<" \o n.name \o ">">> \o html_text(n.contents)
                  \o <<"</" \o n.name \o ">">>)
            \o html_text(Tail(nodes))

\* html.strip() == "" : nothing but whitespace text at the top level
IsBlankHtml(html) ==
    \A i \in 1..Len(html) :
        IsText(html[i]) /\ \A k \in 1..Len(html[i].text) : IsSpace(html[i].text[k])

\* ------------------------------------------------- utils.markdown_to_html

RECURSIVE SpaceRun(_)
\* length of the maximal run of whitespace at the start of s
SpaceRun(s) == IF s # <<>> /\ IsSpace(Head(s)) THEN 1 + SpaceRun(Tail(s)) ELSE 0

\* index of the last newline among s[1..n], 0 when there is none
LastNewline(s, n) ==
    LET ks == {k \in 1..n : s[k] = "\n"}
    IN IF ks = {} THEN 0 ELSE CHOOSE k \in ks : \A j \in ks : j <= k

RECURSIVE sub_space_newline(_)
\* re.sub(r'\s+\n', '\n', text): leftmost match, \s+ greedy, so a match at a
\* position takes the whitespace run up to its last newline, which must
\* not be the run's first character.
sub_space_newline(s) ==
    IF s = <<>> THEN <<>>
    ELSE LET k == LastNewline(s, SpaceRun(s))
         IN IF k >= 2 THEN <<"\n">> \o sub_space_newline(Drop(s, k))
            ELSE <<Head(s)>> \o sub_space_newline(Tail(s))

RECURSIVE split_lines(_)
\* text.split("\n")
split_lines(s) ==
    LET ks == {k \in 1..Len(s) : s[k] = "\n"}
    IN IF ks = {} THEN <<s>>
       ELSE LET k == CHOOSE i \in ks : \A j \in ks : i <= j
            IN <<SubSeq(s, 1, k - 1)>> \o split_lines(Drop(s, k))

RECURSIVE HashRun(_)
HashRun(s) == IF s # <<>> /\ Head(s) = "#" THEN 1 + HashRun(Tail(s)) ELSE 0

RECURSIVE StripHashes(_)
StripHashes(s) ==
    IF s # <<>> /\ s[Len(s)] = "#" THEN StripHashes(SubSeq(s, 1, Len(s) - 1)) ELSE s

HeadingName(level) ==
    CASE level = 1 -> "h1" [] level = 2 -> "h2" [] level = 3 -> "h3"
      [] level = 4 -> "h4" [] level = 5 -> "h5" [] OTHER -> "h6"

\* The engine's hash header: 1..6 leading '#', closing '#'s dropped, text stripped.
HeaderBlock(line) ==
    LET level == Min(HashRun(line), 6)
        header == strip(StripHashes(Drop(line, level)))
    IN Tag(HeadingName(level), IF header = <<>> THEN <<>> ELSE <<Text(header)>>)

RECURSIVE ParagraphContents(_)
\* nl2br: every newline inside a paragraph becomes <br /> followed by the newline
ParagraphContents(lines) ==
    IF Len(lines) = 1 THEN <<Text(lines[1])>>
    ELSE ParagraphContents(SubSeq(lines, 1, Len(lines) - 1))
         \o <<Tag("br", <<>>), Text(<<"\n">> \o lines[Len(lines)])>>

Flush(para) == IF para = <<>> THEN <<>> ELSE <<Tag("p", ParagraphContents(para))>>

RECURSIVE MarkdownBlocks(_, _)
MarkdownBlocks(lines, para) ==
    IF lines = <<>> THEN Flush(para)
    ELSE IF HashRun(Head(lines)) > 0
         THEN Flush(para) \o <<HeaderBlock(Head(lines))>>
              \o MarkdownBlocks(Tail(lines), <<>>)
         ELSE MarkdownBlocks(Tail(lines), Append(para, Head(lines)))

RECURSIVE JoinBlocks(_)
\* the engine writes a newline between top-level blocks
JoinBlocks(blocks) ==
    IF Len(blocks) <= 1 THEN blocks
    ELSE <<Head(blocks), Text(<<"\n">>)>> \o JoinBlocks(Tail(blocks))

\* markdown.markdown(text, extensions=[...]) on the fragment of Markdown made
\* of hash headers and paragraph lines
markdown(text) ==
    IF text = <<>> THEN <<>> ELSE JoinBlocks(MarkdownBlocks(split_lines(text), <<>>))

markdown_to_html(text) == markdown(strip(sub_space_newline(text)))

\* -------------------------------------------------- views.sanitize_filename

UnsafeChars == {"<", ">", ":", "\"", "/", "\\", "|", "?", "*"}

\* name[:200]
FilenameLimit == 200

DefaultName == <<"d", "o", "c", "u", "m", "e", "n", "t">>

DocxExt == <<".", "d", "o", "c", "x">>

PdfExt == <<".", "p", "d", "f">>

\* Variant of sanitize_filename without the name[:200] cut.
sanitize_filename_uncut(name) ==
    LET replaced == [i \in 1..Len(name) |->
                        IF name[i] \in UnsafeChars THEN "_" ELSE name[i]]
    IN IF replaced = <<>> THEN DefaultName ELSE replaced

sanitize_filename(name) ==
    LET replaced == [i \in 1..Len(name) |->
                        IF name[i] \in UnsafeChars THEN "_" ELSE name[i]]
        cut == Prefix(replaced, FilenameLimit)
    IN IF cut = <<>> THEN DefaultName ELSE cut

\* filename = sanitize_filename(filename); append ext unless it ends with it
WithExtension(filename, ext) ==
    LET name == sanitize_filename(filename)
    IN IF endswith(lower(name), ext) THEN name ELSE name \o ext

\* ------------------------------------------------------ views.export_word

NoContent ==
    <<"N", "o", " ", "c", "o", "n", "t", "e", "n", "t", " ",
      "a", "v", "a", "i", "l", "a", "b", "l", "e">>

\* Pt(10)
CodeFontSize == 10

Run(text) == [text |-> text, bold |-> FALSE, italic |-> FALSE, font |-> "", size |-> 0]

CodeRun(text) == [Run(text) EXCEPT !.font = "Courier New", !.size = CodeFontSize]

Paragraph(style, level, runs) == [style |-> style, level |-> level, runs |-> runs]

\* Document.add_paragraph(text, style): the run is added only for a non-empty text
add_paragraph(doc, text, style) ==
    Append(doc, Paragraph(style, 0, IF text = <<>> THEN <<>> ELSE <<Run(text)>>))

\* Document.add_heading(text, level): a paragraph of style "Heading <level>"
add_heading(doc, text, level) ==
    Append(doc, Paragraph("Heading", level, IF text = <<>> THEN <<>> ELSE <<Run(text)>>))

HeadingTags == {"h1", "h2", "h3", "h4", "h5", "h6"}

\* int(element.name[1])
HeadingDigit(name) ==
    CASE name = "h1" -> 1 [] name = "h2" -> 2 [] name = "h3" -> 3
      [] name = "h4" -> 4 [] name = "h5" -> 5 [] name = "h6" -> 6

RECURSIVE DescendantLis(_)
DescendantLis(nodes) ==
    IF nodes = <<>> THEN <<>>
    ELSE (IF Head(nodes).name = "li" THEN <<Head(nodes)>> ELSE <<>>)
         \o DescendantLis(Head(nodes).contents) \o DescendantLis(Tail(nodes))

\* Variant of DirectLis with find_all's default recursive=True.
AllLis(element) == DescendantLis(element.contents)

\* element.find_all("li", recursive=False)
DirectLis(element) == SelectSeq(element.contents, LAMBDA n : n.name = "li")

InlineRun(node) ==
    IF IsText(node) THEN Run(node.text)
    ELSE IF node.name \in {"strong", "b"} THEN [Run(get_text(node)) EXCEPT !.bold = TRUE]
    ELSE IF node.name \in {"em", "i"} THEN [Run(get_text(node)) EXCEPT !.italic = TRUE]
    ELSE IF node.name = "code" THEN CodeRun(get_text(node))
    ELSE Run(get_text(node))

add_inline_formatting(element) == [i \in 1..Len(element.contents) |-> InlineRun(element.contents[i])]

RECURSIVE AddListItems(_, _, _)
AddListItems(doc, lis, style) ==
    IF lis = <<>> THEN doc
    ELSE AddListItems(add_paragraph(doc, get_text(Head(lis)), style), Tail(lis), style)

parse_html_element(doc, element) ==
    IF IsText(element) THEN doc
    ELSE IF element.name \in HeadingTags
         THEN add_heading(doc, get_text(element), Min(HeadingDigit(element.name), 9))
    ELSE IF element.name = "p"
         THEN Append(doc, Paragraph("Normal", 0, add_inline_formatting(element)))
    ELSE IF element.name = "ul"
         THEN AddListItems(doc, DirectLis(element), "List Bullet")
    ELSE IF element.name = "ol"
         THEN AddListItems(doc, DirectLis(element), "List Number")
    ELSE IF element.name \in {"pre", "code"}
         THEN Append(doc, Paragraph("Normal", 0, <<CodeRun(get_text(element))>>))
    ELSE IF element.name = "blockquote"
         THEN add_paragraph(doc, get_text(element), "Quote")
    ELSE doc

RECURSIVE ParseAll(_, _)
\* for element in soup.children: parse_html_element(doc, element)
ParseAll(doc, elements) ==
    IF elements = <<>> THEN doc
    ELSE ParseAll(parse_html_element(doc, Head(elements)), Tail(elements))

\* ------------------------------------------------------------- messages

NoReq ==
    [op |-> "none", text |-> <<>>, html |-> <<>>, file_name |-> <<>>,
     pk |-> 0, page |-> 0, q |-> <<>>]

NoResp ==
    [kind |-> "none", status |-> 0,
     raw_text |-> <<>>, html_output |-> <<>>, error_message |-> "None",
     history_items |-> <<>>, search_query |-> <<>>,
     json_status |-> "", deleted |-> -1, error |-> "", formatted_html |-> <<>>,
     items |-> <<>>, has_next |-> FALSE, has_previous |-> FALSE,
     content_type |-> "", filename |-> <<>>, doc |-> <<>>, pdf_body |-> <<>>,
     warned |-> FALSE]

DocxType == "application/vnd.openxmlformats-officedocument.wordprocessingml.document"

\* Variant of IsEmptyDocument that never reports an empty document.
IsEmptyDocument_never(doc) == FALSE

\* len(doc.paragraphs) == 0
IsEmptyDocument(doc) == Len(doc) = 0

\* views.export_word: the HttpResponse it returns
export_word(html, filename) ==
    LET name == WithExtension(filename, DocxExt)
        walked == ParseAll(<<>>, html)
        empty == IsEmptyDocument(walked)
    IN [NoResp EXCEPT !.kind = "attachment", !.status = 200,
                      !.content_type = DocxType, !.filename = name,
                      !.doc = IF empty THEN add_paragraph(walked, NoContent, "Normal")
                              ELSE walked,
                      !.warned = empty]

\* views.export_pdf: the HttpResponse it returns, or the exception it raises
\* when pisa reports an error
export_pdf(html, filename, pisa_err) ==
    LET name == WithExtension(filename, PdfExt)
        blank == html = <<>> \/ IsBlankHtml(html)
        body == IF blank THEN <<Tag("p", <<Text(NoContent)>>)>> ELSE html
    IN IF pisa_err
       THEN [NoResp EXCEPT !.kind = "exception", !.status = 500,
                           !.error = "PDF generation failed"]
       ELSE [NoResp EXCEPT !.kind = "attachment", !.status = 200,
                           !.content_type = "application/pdf", !.filename = name,
                           !.pdf_body = body, !.warned = blank]

\* ------------------------------------------------------- the history table

\* Rendering granularity of created_at.strftime("%Y-%m-%d %H:%M")
TicksPerMinute == 2

\* Paginator(items, 10)
PageSize == 10

\* raw_text[:100]
PreviewLimit == 100

\* query[:200]
QueryLimit == 200

\* [:50]
SearchLimit == 50

\* [:10]
RecentLimit == 10

Row(id, t, raw_text, formatted_html) ==
    [id |-> id, raw_text |-> raw_text, formatted_html |-> formatted_html,
     created_at |-> t]

\* Variant of create that saves the raw text in both columns.
create_unrendered(rows, id, t, raw_text, formatted_html) ==
    rows \cup {Row(id, t, raw_text, <<Text(raw_text)>>)}

\* Variant of create whose raw_text column holds one character.
create_truncating(rows, id, t, raw_text, formatted_html) ==
    rows \cup {Row(id, t, Prefix(raw_text, 1), formatted_html)}

\* TextHistory.objects.create(raw_text=..., formatted_html=...)
create(rows, id, t, raw_text, formatted_html) ==
    rows \cup {Row(id, t, raw_text, formatted_html)}

RECURSIVE order_by_created_desc(_)
\* .order_by('-created_at')
order_by_created_desc(rows) ==
    IF rows = {} THEN <<>>
    ELSE LET r == CHOOSE x \in rows : \A y \in rows : y.created_at <= x.created_at
         IN <<r>> \o order_by_created_desc(rows \ {r})

\* TextHistory.objects.filter(pk=pk)
filter_pk(rows, pk) == {r \in rows : r.id = pk}

\* Variant of delete_pk filtering on pk__lte.
delete_pk_upto(rows, pk) == {r \in rows : r.id > pk}

\* TextHistory.objects.filter(pk=pk).delete()
delete_pk(rows, pk) == rows \ filter_pk(rows, pk)

\* Q(raw_text__icontains=query) | Q(formatted_html__icontains=query)
filter_icontains(rows, query) ==
    {r \in rows : \/ Contains(lower(r.raw_text), lower(query))
                  \/ Contains(lower(html_text(r.formatted_html)), lower(query))}

\* Paginator.num_pages with allow_empty_first_page
num_pages(count) ==
    IF count = 0 THEN 1 ELSE (count + PageSize - 1) \div PageSize

\* Variant of get_page_number that does not clamp a number beyond the last page.
get_page_number_unclamped(count, number) == IF number < 1 THEN 1 ELSE number

\* Paginator.get_page(number): an out-of-range number is served the last page
get_page_number(count, number) ==
    IF number < 1 \/ number > num_pages(count) THEN num_pages(count) ELSE number

\* Paginator.page(number).object_list
page_objects(ordered, number) ==
    SubSeq(ordered, (number - 1) * PageSize + 1,
           Min(number * PageSize, Len(ordered)))

PageItem(r) ==
    [id |-> r.id, raw_text |-> Prefix(r.raw_text, PreviewLimit),
     created_at |-> r.created_at \div TicksPerMinute]

\* ------------------------------------------------------------- responses

\* render(request, "formatter/dashboard.html", {...}) with the 10 newest rows
Page(raw_text, html_output, error_message, rows) ==
    [NoResp EXCEPT !.kind = "page", !.status = 200,
                   !.raw_text = raw_text, !.html_output = html_output,
                   !.error_message = error_message,
                   !.history_items = Prefix(order_by_created_desc(rows), RecentLimit)]

Json(status) == [NoResp EXCEPT !.kind = "json", !.status = status]

Ids(rows) == {r.id : r \in rows}

Restrict(f, S) == [x \in (DOMAIN f) \cap S |-> f[x]]

\* ------------------------------------------------------------- the views

\* dashboard, GET
DashboardGet ==
    /\ req' = [NoReq EXCEPT !.op = "dashboard"]
    /\ resp' = Page(<<>>, <<>>, "None", store)
    /\ UNCHANGED <<store, nextId, now, submitted, rendered>>

\* dashboard, POST with "format": render_ok / save_ok are whether
\* markdown_to_html and TextHistory.objects.create return or raise
DashboardFormat(texts) ==
    \E text \in texts, render_ok \in BOOLEAN, save_ok \in BOOLEAN :
        LET raw_text == strip(text)
            entered == raw_text # <<>>
            html_output == IF entered /\ render_ok
                           THEN markdown_to_html(raw_text) ELSE <<>>
            saved == entered /\ render_ok /\ save_ok
            rows == IF saved
                    THEN create(store, nextId, now, raw_text, html_output)
                    ELSE store
            error_message ==
                IF ~entered THEN "Please enter some text to format."
                ELSE IF saved THEN "None"
                ELSE "An error occurred while processing your text."
        IN /\ saved => nextId <= MaxCreates
           /\ req' = [NoReq EXCEPT !.op = "format", !.text = text]
           /\ store' = rows
           /\ nextId' = IF saved THEN nextId + 1 ELSE nextId
           /\ now' = IF saved THEN now + 1 ELSE now
           /\ submitted' =
                IF saved
                THEN [i \in Ids(rows) |->
                        IF i = nextId THEN [text |-> text, html |-> html_output]
                        ELSE submitted[i]]
                ELSE submitted
           /\ rendered' = IF saved THEN rendered \cup {html_output} ELSE rendered
           /\ resp' = Page(raw_text, html_output, error_message, rows)

\* Variant of HasPayload that accepts every formatted_html.
HasPayload_unchecked(html_output) == TRUE

\* not (not html_output): the export branch needs a non-empty formatted_html
HasPayload(html_output) == html_output # <<>>

\* dashboard, POST with "export_word" or "export_pdf" (the export form posts
\* formatted_html and file_name; its raw_text field is absent, hence "")
DashboardExport(intents, htmls, names) ==
    \E intent \in intents, html \in htmls, file_name \in names,
       pisa_err \in BOOLEAN :
        LET filename == strip(file_name)
            out == IF intent = "export_word"
                   THEN export_word(html, IF filename = <<>>
                                          THEN DefaultName \o DocxExt ELSE filename)
                   ELSE export_pdf(html, IF filename = <<>>
                                         THEN DefaultName \o PdfExt ELSE filename,
                                   pisa_err)
        IN /\ req' = [NoReq EXCEPT !.op = intent, !.html = html,
                                   !.file_name = file_name]
           /\ resp' =
                IF ~HasPayload(html)
                THEN Page(<<>>, <<>>,
                          "No content to export. Please format text first.", store)
                ELSE IF out.kind = "exception"
                THEN Page(<<>>, html,
                          "An error occurred while exporting: " \o out.error, store)
                ELSE out
           /\ UNCHANGED <<store, nextId, now, submitted, rendered>>

\* Variant of load_history_response answering 200 with empty fields for a
\* missing row.
load_history_response_lenient(found, db_ok) ==
    IF ~db_ok
    THEN [Json(500) EXCEPT !.error = "Server error"]
    ELSE IF found = {}
    THEN Json(200)
    ELSE LET item == CHOOSE r \in found : TRUE
         IN [Json(200) EXCEPT !.raw_text = item.raw_text,
                              !.formatted_html = item.formatted_html]

\* The JsonResponse of load_history: found is what objects.get(pk=pk) selects,
\* db_ok whether the query returns or raises something other than DoesNotExist
load_history_response(found, db_ok) ==
    IF ~db_ok
    THEN [Json(500) EXCEPT !.error = "Server error"]
    ELSE IF found = {}
    THEN [Json(404) EXCEPT !.error = "Item not found"]
    ELSE LET item == CHOOSE r \in found : TRUE
         IN [Json(200) EXCEPT !.raw_text = item.raw_text,
                              !.formatted_html = item.formatted_html]

\* load_history(pk)
LoadHistory(pks) ==
    \E pk \in pks, db_ok \in BOOLEAN :
        LET found == filter_pk(store, pk)
        IN /\ req' = [NoReq EXCEPT !.op = "load_history", !.pk = pk]
           /\ resp' = load_history_response(found, db_ok)
           /\ UNCHANGED <<store, nextId, now, submitted, rendered>>

\* delete_history(pk), POST
DeleteHistory(pks) ==
    \E pk \in pks, db_ok \in BOOLEAN :
        LET rows == IF db_ok THEN delete_pk(store, pk) ELSE store
        IN /\ req' = [NoReq EXCEPT !.op = "delete_history", !.pk = pk]
           /\ store' = rows
           /\ submitted' = Restrict(submitted, Ids(rows))
           /\ resp' = IF db_ok THEN [Json(200) EXCEPT !.json_status = "ok"]
                      ELSE [Json(500) EXCEPT !.json_status = "error"]
           /\ UNCHANGED <<nextId, now, rendered>>

\* Variant of delete_all_count that counts the rows left after the delete.
delete_all_count_after(rows) == 0

\* TextHistory.objects.all().delete()[0]: the number of rows deleted
delete_all_count(rows) == Cardinality(rows)

\* delete_all_history, POST
DeleteAllHistory ==
    \E db_ok \in BOOLEAN :
        LET rows == IF db_ok THEN {} ELSE store
        IN /\ req' = [NoReq EXCEPT !.op = "delete_all_history"]
           /\ store' = rows
           /\ submitted' = Restrict(submitted, Ids(rows))
           /\ resp' = IF db_ok
                      THEN [Json(200) EXCEPT !.json_status = "ok",
                                             !.deleted = delete_all_count(store)]
                      ELSE [Json(500) EXCEPT !.json_status = "error"]
           /\ UNCHANGED <<nextId, now, rendered>>

\* history_page, GET ?page=N
HistoryPage(pages) ==
    \E page \in pages :
        LET ordered == order_by_created_desc(store)
            number == get_page_number(Len(ordered), page)
            objects == page_objects(ordered, number)
        IN /\ req' = [NoReq EXCEPT !.op = "history_page", !.page = page]
           /\ resp' = [Json(200) EXCEPT
                         !.items = [i \in 1..Len(objects) |-> PageItem(objects[i])],
                         !.has_next = number < num_pages(Len(ordered)),
                         !.has_previous = number > 1]
           /\ UNCHANGED <<store, nextId, now, submitted, rendered>>

\* filter_history, GET ?q=...
FilterHistory(queries) ==
    \E q \in queries :
        LET query == Prefix(strip(q), QueryLimit)
            history_items ==
                IF query # <<>>
                THEN Prefix(order_by_created_desc(filter_icontains(store, query)),
                            SearchLimit)
                ELSE Prefix(order_by_created_desc(store), RecentLimit)
        IN /\ req' = [NoReq EXCEPT !.op = "filter_history", !.q = q]
           /\ resp' = [NoResp EXCEPT !.kind = "page", !.status = 200,
                                     !.history_items = history_items,
                                     !.search_query = query]
           /\ UNCHANGED <<store, nextId, now, submitted, rendered>>

\* ------------------------------------------------------ the request machine

FormatInputs ==
    {<<>>, <<" ">>, <<"a">>, <<" ", "a", "\n">>, <<"#", "a">>}

ExportHtmls ==
    {<<>>, <<Text(<<" ">>)>>, <<Tag("ul", <<>>)>>,
     markdown_to_html(<<"a">>), markdown_to_html(<<"#", "a">>)}

ExportNames == {<<>>, <<" ", "a", "/", "b">>}

Intents == {"export_word", "export_pdf"}

Pks == 1..(MaxCreates + 1)

Pages == {0, 1, 2}

Queries == {<<>>, <<"A">>, <<"#">>}

Init ==
    /\ store = {}
    /\ nextId = 1
    /\ now = 1
    /\ req = NoReq
    /\ resp = NoResp
    /\ submitted = <<>>
    /\ rendered = {}

Next ==
    \/ DashboardGet
    \/ DashboardFormat(FormatInputs)
    \/ DashboardExport(Intents, ExportHtmls, ExportNames)
    \/ LoadHistory(Pks)
    \/ DeleteHistory(Pks)
    \/ DeleteAllHistory
    \/ HistoryPage(Pages)
    \/ FilterHistory(Queries)

Spec == Init /\ [][Next]_vars

\* ------------------------------------------- export_word / export_pdf, called

\* A call export_word(html, filename) or export_pdf(html, filename) about to run
InitCall(ops, htmls, names) ==
    /\ store = {}
    /\ nextId = 1
    /\ now = 1
    /\ \E op \in ops, html \in htmls, filename \in names :
            req = [NoReq EXCEPT !.op = op, !.html = html, !.file_name = filename]
    /\ resp = NoResp
    /\ submitted = <<>>
    /\ rendered = {}

\* export_word(html, filename) runs
ExportWordCall ==
    /\ req.op = "export_word_call"
    /\ resp = NoResp
    /\ resp' = export_word(req.html, req.file_name)
    /\ UNCHANGED <<store, nextId, now, req, submitted, rendered>>

\* export_pdf(html, filename) runs
ExportPdfCall ==
    /\ req.op = "export_pdf_call"
    /\ resp = NoResp
    /\ \E pisa_err \in BOOLEAN : resp' = export_pdf(req.html, req.file_name, pisa_err)
    /\ UNCHANGED <<store, nextId, now, req, submitted, rendered>>

\* Longest run of one character inside a generated file name.
MaxPad == 202

\* c * n
Repeat(c, n) == [i \in 1..n |-> c]

PadLens == {0, 1} \cup ((FilenameLimit - 6)..MaxPad)

FileNames ==
    {head \o Repeat(c, n) \o tail :
        head \in {<<>>, <<"<">>},
        c \in {"a", "/"},
        n \in PadLens,
        tail \in {<<>>, DocxExt, <<".", "P", "D", "F">>}}

FileHtmls == {<<>>, markdown_to_html(<<"a">>)}

InitFile == InitCall({"export_word_call", "export_pdf_call"}, FileHtmls, FileNames)

NextFile == ExportWordCall \/ ExportPdfCall

SpecFile == InitFile /\ [][NextFile]_vars

\* Top-level nodes of one exported document.
MaxBlocks == 2

Li(children) == Tag("li", children)

A == Text(<<"a">>)

B == Text(<<"b">>)

BlockNodes ==
    {Text(<<" ">>), Text(<<"a">>),
     Tag("h1", <<A>>), Tag("h6", <<A, Tag("em", <<B>>)>>),
     Tag("p", <<A, Tag("strong", <<B>>), Tag("br", <<>>)>>),
     Tag("ul", <<>>),
     Tag("ul", <<Text(<<"\n">>), Li(<<A>>), Tag("ul", <<Li(<<B>>)>>), Li(<<>>)>>),
     Tag("ol", <<Li(<<A, Tag("ol", <<Li(<<B>>)>>)>>)>>),
     Tag("pre", <<Tag("code", <<A>>)>>), Tag("code", <<>>),
     Tag("blockquote", <<Tag("p", <<A>>)>>),
     Tag("div", <<Tag("p", <<A>>)>>), Tag("li", <<A>>), Tag("h7", <<A>>)}

RECURSIVE SeqsUpTo(_, _)
\* all sequences over S of length at most n
SeqsUpTo(S, n) ==
    IF n = 0 THEN {<<>>}
    ELSE LET shorter == SeqsUpTo(S, n - 1)
         IN shorter \cup {Append(q, x) : q \in shorter, x \in S}

DocxHtmls == SeqsUpTo(BlockNodes, MaxBlocks)

InitDocx == InitCall({"export_word_call"}, DocxHtmls, {<<>>})

NextDocx == ExportWordCall

SpecDocx == InitDocx /\ [][NextDocx]_vars

\* ------------------------------------------------- history_page on a full table

\* Rows in the table when pages are requested.
MaxPageRows == 21

\* Largest page number requested.
MaxPage == 4

PageText == <<"a">>

InitPage ==
    \E n \in 0..MaxPageRows :
        /\ store = {Row(i, i, PageText, markdown_to_html(PageText)) : i \in 1..n}
        /\ nextId = n + 1
        /\ now = n + 1
        /\ req = NoReq
        /\ resp = NoResp
        /\ submitted = [i \in 1..n |->
                            [text |-> PageText, html |-> markdown_to_html(PageText)]]
        /\ rendered = IF n = 0 THEN {} ELSE {markdown_to_html(PageText)}

NextPage == HistoryPage(-1..MaxPage)

SpecPage == InitPage /\ [][NextPage]_vars

\* ----------------------------------------------------------------- claims

HasUnsafe(name) == \E i \in 1..Len(name) : name[i] \in UnsafeChars

CallExt == IF req.op = "export_word_call" THEN DocxExt ELSE PdfExt

\* C1: sanitize_filename returns a string with none of < > : " / \ | ? *, of
\* length at most 200 and never empty ("document" for an empty result), so the
\* Content-Disposition filename of export_word / export_pdf has at most 200
\* characters plus the enforced extension.
C1_SanitizedFilename ==
    req.op \in {"export_word_call", "export_pdf_call"} =>
        LET name == sanitize_filename(req.file_name)
        IN /\ ~HasUnsafe(name)
           /\ Len(name) <= 200
           /\ name # <<>>
           /\ (req.file_name = <<>> => name = DefaultName)
           /\ resp.kind = "attachment" =>
                /\ Len(resp.filename) <= 200 + Len(CallExt)
                /\ ~HasUnsafe(resp.filename)
                /\ endswith(lower(resp.filename), CallExt)

\* C1, witness: a call of export_word with a file name of more than 200 characters, some of them unsafe, answered with a 205-character name.
C1_Witness ==
    /\ req.op = "export_word_call"
    /\ HasUnsafe(req.file_name)
    /\ Len(req.file_name) > 200
    /\ resp.kind = "attachment"
    /\ Len(resp.filename) = 205

\* C2: every stored row's formatted_html is the renderer's output for that
\* row's raw_text, and no request changes the raw_text, formatted_html or
\* created_at of a row that already exists.
C2_RowsRenderedAndImmutable ==
    [][/\ \A r \in store' : r.formatted_html = markdown_to_html(r.raw_text)
       /\ \A r \in store : \A q \in store' : q.id = r.id => q = r]_vars

\* C2, witness: two rows are stored and a later export, load or delete request has been answered.
C2_Witness ==
    /\ Cardinality(store) = 2
    /\ req.op \in {"export_word", "load_history", "delete_history"}
    /\ resp.status = 200

NoExportMessage == "No content to export. Please format text first."

\* C3 (as stated): an export POST returns an attachment only if the
\* formatted_html it carries is the output of an earlier successful format
\* action; without such a payload it yields the error message and no download.
C3_Original ==
    req.op \in Intents =>
        /\ resp.kind = "attachment" => req.html \in rendered
        /\ req.html \notin rendered =>
             resp.kind = "page" /\ resp.error_message = NoExportMessage

\* C3 (amended): an export POST returns an attachment only if the
\* formatted_html field it carries is non-empty, whatever its origin; with an
\* empty field it yields the error message and no download.
C3_ExportNeedsPayload ==
    req.op \in Intents =>
        /\ resp.kind = "attachment" => req.html # <<>>
        /\ req.html = <<>> =>
             resp.kind = "page" /\ resp.error_message = NoExportMessage
        /\ resp.kind \in {"attachment", "page"}

\* C3, witness: after a successful format, an export with an empty formatted_html is answered with the error page.
C3_Witness ==
    /\ req.op = "export_word"
    /\ req.html = <<>>
    /\ rendered # {}
    /\ resp.kind = "page"
    /\ resp.error_message = NoExportMessage

LastPage(count) == IF count = 0 THEN 1 ELSE ((count - 1) \div 10) + 1

\* C4 (as stated): a page number beyond the last page returns an empty items
\* list with has_next = false; has_previous is false only when the page
\* served is page 1, and any request for N > 1 reports has_previous = true.
C4_Original ==
    req.op = "history_page" =>
        /\ req.page > LastPage(Cardinality(store)) =>
             resp.items = <<>> /\ ~resp.has_next
        /\ req.page > 1 => resp.has_previous

\* C4 (amended): a page number beyond the last page is served the last page:
\* has_next = false and the items are the rows of the last page, empty only
\* when the table is empty; has_previous is false exactly when the page
\* served (N, or the last page when N is out of range) is page 1.
C4_OutOfRangeServesLastPage ==
    req.op = "history_page" =>
        LET count == Cardinality(store)
            last == LastPage(count)
            served == IF req.page < 1 \/ req.page > last THEN last ELSE req.page
        IN /\ req.page > last =>
                /\ ~resp.has_next
                /\ Len(resp.items) = count - (last - 1) * 10
                /\ (resp.items = <<>> <=> count = 0)
           /\ resp.has_previous <=> served > 1
           /\ Len(resp.items) = Min(10, count - (served - 1) * 10)

\* C4, witness: page 3 is requested of a table of 15 rows and the second, last page is served.
C4_Witness ==
    /\ req.op = "history_page"
    /\ Cardinality(store) = 15
    /\ req.page = 3
    /\ Len(resp.items) = 5
    /\ resp.has_previous
    /\ ~resp.has_next

\* C5 (as stated): the row created by a format request is returned by
\* load_history(id) with raw_text exactly the user input as submitted and
\* formatted_html exactly the HTML rendered and displayed for that request.
C5_Original ==
    (req.op = "load_history" /\ resp.status = 200) =>
        /\ resp.raw_text = submitted[req.pk].text
        /\ resp.formatted_html = submitted[req.pk].html

\* C5 (amended): the row created by a format request is returned by
\* load_history(id) with raw_text equal to the submitted input with its
\* leading and trailing whitespace removed, and formatted_html exactly the
\* HTML rendered and displayed for that request.
C5_RoundTripStripped ==
    req.op = "load_history" =>
        /\ resp.status = 200 =>
             /\ resp.raw_text = strip(submitted[req.pk].text)
             /\ resp.formatted_html = submitted[req.pk].html
        /\ (req.pk \in DOMAIN submitted /\ resp.status # 500) => resp.status = 200

\* C5, witness: a row posted with surrounding whitespace is loaded back.
C5_Witness ==
    /\ req.op = "load_history"
    /\ resp.status = 200
    /\ submitted[req.pk].text # strip(submitted[req.pk].text)
    /\ resp.raw_text = <<"a">>

IsDeleteOk(r) == r.status = 200 /\ r.json_status = "ok"

\* C6 (as stated): for load_history and delete_history an id absent from the
\* table is reported as a not-found outcome distinct from success and from
\* persistence failure; delete of a missing id does not report the result of
\* delete of an existing id.
C6_Original ==
    [][/\ (req'.op = "load_history" /\ filter_pk(store, req'.pk) = {}) =>
            resp'.status \in {404, 500}
       /\ (req'.op = "delete_history" /\ filter_pk(store, req'.pk) = {}) =>
            ~IsDeleteOk(resp')]_vars

\* C6 (amended): load_history reports an id absent from the table as 404
\* "Item not found", distinct from success (200) and from persistence failure
\* (500); delete_history reports a missing id exactly as it reports an
\* existing one, {"status": "ok"} with 200, and only a persistence failure
\* differently (500).
C6_NotFoundOnlyOnLoad ==
    [][/\ req'.op = "load_history" =>
            /\ resp'.status \in {200, 404, 500}
            /\ filter_pk(store, req'.pk) = {} => resp'.status \in {404, 500}
            /\ resp'.status = 404 =>
                 filter_pk(store, req'.pk) = {} /\ resp'.error = "Item not found"
            /\ resp'.status = 200 => filter_pk(store, req'.pk) # {}
       /\ req'.op = "delete_history" =>
            /\ resp'.status \in {200, 500}
            /\ resp'.status = 200 => resp' = [Json(200) EXCEPT !.json_status = "ok"]
            /\ resp'.status = 500 => resp'.json_status = "error" /\ store' = store]_vars

\* C6, witness: delete_history of an id never assigned answers ok while rows exist.
C6_Witness ==
    /\ req.op = "delete_history"
    /\ req.pk >= nextId
    /\ store # {}
    /\ IsDeleteOk(resp)

RecognizedTags ==
    {"h1", "h2", "h3", "h4", "h5", "h6", "p", "ul", "ol", "pre", "code", "blockquote"}

IsRecognizedBlock(node) == ~IsText(node) /\ node.name \in RecognizedTags

LiPositions(node) == {i \in 1..Len(node.contents) : node.contents[i].name = "li"}

\* the k-th direct li child of a list
NthLi(node, k) ==
    LET i == CHOOSE j \in LiPositions(node) :
                 Cardinality({m \in LiPositions(node) : m <= j}) = k
    IN node.contents[i]

\* paragraphs the walk is to emit for one top-level node
Emits(node) ==
    IF IsText(node) THEN 0
    ELSE IF node.name \in {"ul", "ol"} THEN Cardinality(LiPositions(node))
    ELSE IF node.name \in RecognizedTags THEN 1
    ELSE 0

RECURSIVE EmitsBefore(_, _)
\* paragraphs the walk is to emit for html[1..i-1]
EmitsBefore(html, i) ==
    IF i <= 1 THEN 0 ELSE EmitsBefore(html, i - 1) + Emits(html[i - 1])

RECURSIVE ParaText(_)
ParaText(runs) == IF runs = <<>> THEN <<>> ELSE Head(runs).text \o ParaText(Tail(runs))

PlaceholderParagraph == Paragraph("Normal", 0, <<Run(NoContent)>>)

HasPlaceholder(doc) == \E k \in 1..Len(doc) : doc[k] = PlaceholderParagraph

\* C7 (as stated): DOCX export of HTML that is empty, whitespace-only or made
\* up entirely of unrecognized top-level tags produces exactly one paragraph,
\* "No content available"; for any HTML with at least one recognized
\* top-level block the placeholder paragraph is not added.
C7_Original ==
    (req.op = "export_word_call" /\ resp.kind = "attachment") =>
        /\ (\A i \in 1..Len(req.html) : ~IsRecognizedBlock(req.html[i])) =>
             resp.doc = <<PlaceholderParagraph>>
        /\ (\E i \in 1..Len(req.html) : IsRecognizedBlock(req.html[i])) =>
             ~resp.warned /\ ~HasPlaceholder(resp.doc)

\* C7 (amended): DOCX export of HTML that is empty, whitespace-only, made up
\* entirely of unrecognized top-level tags, or whose only recognized blocks
\* are ul/ol elements without a direct li child, produces exactly one
\* paragraph, "No content available"; for any HTML with at least one
\* recognized top-level block other than such an empty list the placeholder
\* paragraph is not added.
C7_PlaceholderIffNoParagraph ==
    (req.op = "export_word_call" /\ resp.kind = "attachment") =>
        /\ (\A i \in 1..Len(req.html) : ~IsRecognizedBlock(req.html[i])) =>
             resp.doc = <<PlaceholderParagraph>>
        /\ (\A i \in 1..Len(req.html) : Emits(req.html[i]) = 0) =>
             resp.doc = <<PlaceholderParagraph>> /\ resp.warned
        /\ (\E i \in 1..Len(req.html) : Emits(req.html[i]) > 0) =>
             ~resp.warned /\ ~HasPlaceholder(resp.doc)

\* C7, witness: a document of a whitespace text node and a div is exported as the placeholder alone.
C7_Witness ==
    /\ req.op = "export_word_call"
    /\ Len(req.html) = 2
    /\ IsText(req.html[1])
    /\ req.html[2].name = "div"
    /\ resp.doc = <<PlaceholderParagraph>>

\* C8: delete_all_history returns a deleted count equal to the number of rows
\* in the table immediately before the call, and a list of the history taken
\* right after it is empty.
C8_DeleteAllCount ==
    [][/\ (req'.op = "delete_all_history" /\ resp'.status = 200) =>
            /\ resp'.deleted = Cardinality(store)
            /\ order_by_created_desc(store') = <<>>
       /\ (/\ req.op = "delete_all_history"
           /\ resp.status = 200
           /\ req'.op \in {"dashboard", "history_page", "filter_history"}) =>
            resp'.history_items = <<>> /\ resp'.items = <<>>]_vars

\* C8, witness: delete_all_history has removed two rows and reported 2.
C8_Witness ==
    /\ req.op = "delete_all_history"
    /\ resp.status = 200
    /\ resp.deleted = 2
    /\ store = {}

ListStyle(name) == IF name = "ul" THEN "List Bullet" ELSE "List Number"

\* what the k-th paragraph emitted for a top-level node has to be
EmittedFor(node, k, para) ==
    IF node.name \in {"h1", "h2", "h3", "h4", "h5", "h6"}
    THEN /\ para.style = "Heading"
         /\ para.level \in 1..6
         /\ HeadingName(para.level) = node.name
         /\ ParaText(para.runs) = get_text(node)
    ELSE IF node.name = "p"
    THEN /\ para.style = "Normal"
         /\ Len(para.runs) = Len(node.contents)
         /\ ParaText(para.runs) = get_text(node)
    ELSE IF node.name \in {"ul", "ol"}
    THEN /\ para.style = ListStyle(node.name)
         /\ ParaText(para.runs) = get_text(NthLi(node, k))
    ELSE IF node.name \in {"pre", "code"}
    THEN /\ para.style = "Normal"
         /\ para.runs = <<CodeRun(get_text(node))>>
    ELSE /\ para.style = "Quote"
         /\ ParaText(para.runs) = get_text(node)

\* C9: the DOCX walk visits the top-level children in document order and
\* emits in that order: one heading at its numeric level per h1..h6, one
\* paragraph per p, one list-styled paragraph per direct li child of a ul/ol
\* (nested lists only as flattened text), one paragraph per top-level
\* pre/code and per blockquote, and nothing for any other tag or bare text.
C9_WalkInDocumentOrder ==
    (req.op = "export_word_call" /\ resp.kind = "attachment") =>
        LET html == req.html
            walked == IF resp.warned THEN SubSeq(resp.doc, 1, Len(resp.doc) - 1)
                      ELSE resp.doc
        IN /\ Len(walked) = EmitsBefore(html, Len(html) + 1)
           /\ \A i \in 1..Len(html) : \A k \in 1..Emits(html[i]) :
                EmittedFor(html[i], k, walked[EmitsBefore(html, i) + k])

\* C9, witness: a list with two direct li children followed by an h6 is exported as three paragraphs.
C9_Witness ==
    /\ req.op = "export_word_call"
    /\ Len(req.html) = 2
    /\ req.html[1].name = "ul"
    /\ Emits(req.html[1]) = 2
    /\ req.html[2].name = "h6"
    /\ Len(resp.doc) = 3
    /\ resp.doc[1].style = "List Bullet"
    /\ resp.doc[3].style = "Heading"
    /\ resp.doc[3].level = 6

ReadOps ==
    {"dashboard", "export_word", "export_pdf", "load_history", "history_page",
     "filter_history"}

\* C10: the set of rows changes only through a format request whose input is
\* non-empty after trimming and whose render and persist both succeed (adds
\* exactly one row), delete_history (removes at most the row with the given
\* id) and delete_all_history (removes all rows); a format request with empty
\* input, a failed format, every export and every read request leave the
\* table unchanged.
C10_OnlyThreeWriters ==
    [][/\ store' # store =>
            \/ /\ req'.op = "format"
               /\ strip(req'.text) # <<>>
               /\ resp'.error_message = "None"
               /\ \E r \in store' : r \notin store /\ store' = store \cup {r}
            \/ /\ req'.op = "delete_history"
               /\ store' = {r \in store : r.id # req'.pk}
            \/ /\ req'.op = "delete_all_history"
               /\ store' = {}
       /\ req'.op \in ReadOps => store' = store
       /\ (req'.op = "format" /\ resp'.error_message # "None") => store' = store
       /\ (req'.op = "format" /\ strip(req'.text) = <<>>) => store' = store
       /\ (req'.op = "format" /\ resp'.error_message = "None") =>
            Cardinality(store') = Cardinality(store) + 1
       /\ (req'.op = "delete_history" /\ resp'.status = 200) =>
            store \ store' \subseteq {r \in store : r.id = req'.pk}]_vars

\* C10, witness: a format request rendered its text, failed to save it and left the one stored row alone.
C10_Witness ==
    /\ req.op = "format"
    /\ resp.error_message = "An error occurred while processing your text."
    /\ resp.html_output # <<>>
    /\ Cardinality(store) = 1

====
